---- MODULE Spec2Model ----
(***************************************************************************)
(* igloosphinx: the Inventory class of src/igloosphinx/inventory.py.       *)
(*                                                                         *)
(* One Inventory object and the calls made on it.  fetch_inventory is      *)
(* modelled statement by statement (pc is the position inside the call):   *)
(* _discover_objects_inv, its fallback _fallback_metadata_lookup,          *)
(* _download_inventory, _parse_inventory and the assignment of the         *)
(* parsed frame to self._inventory_df.  The outside world (the             *)
(* pypi-docs-url executable, the PyPI registry, the documentation host)    *)
(* answers nondeterministically.                                           *)
(*                                                                         *)
(* A Python string that the code computes with (a URL) is the sequence of  *)
(* its characters.  An exception is named by its Python class.             *)
(***************************************************************************)
EXTENDS Integers, Sequences, FiniteSets, TLC

\* ------------------------------------------------------------ bounds
\* calls of fetch_inventory made on the object
MaxCalls == 2
\* length of a Documentation URL the registry returns
MaxUrlLen == 2
\* lines of a downloaded payload
MaxLines == 2

\* ------------------------------------------------------------ values
None == [bound |-> FALSE]
Some(x) == [bound |-> TRUE, val |-> x]

Chars == {"a", "/"}

RECURSIVE SeqsUpTo(_, _)
SeqsUpTo(S, n) ==
    IF n = 0 THEN {<<>>}
    ELSE LET shorter == SeqsUpTo(S, n - 1)
         IN shorter \cup {Append(s, c) : s \in shorter, c \in S}

\* the strings the registry may give as project_urls["Documentation"]
DocStrings == SeqsUpTo(Chars, MaxUrlLen)

\* JSON documents of the registry: data["info"] with the project_urls key
\* absent, null, or a mapping whose Documentation key is absent, null or a
\* string (possibly empty).
Metadata ==
    {[project_urls |-> p, documentation |-> "absent", value |-> <<>>] :
        p \in {"absent", "null", "mapping"}}
    \cup {[project_urls |-> "mapping", documentation |-> "null", value |-> <<>>]}
    \cup {[project_urls |-> "mapping", documentation |-> "str", value |-> s] :
            s \in DocStrings}

NoMetadata == [project_urls |-> "absent", documentation |-> "absent", value |-> <<>>]

\* what requests.get(pypi_url, timeout=10) can come back with
RegistryResponses ==
    {[net |-> n, status |-> 0, data |-> NoMetadata] : n \in {"refused", "slow"}}
    \cup {[net |-> "answered", status |-> s, data |-> NoMetadata] : s \in {404, 503}}
    \cup {[net |-> "answered", status |-> 200, data |-> m] : m \in Metadata}

\* lines of the decompressed inventory text: a blank line, a line that does
\* not have the five fields, and well-formed lines whose location does or
\* does not end in "$".  A location is its text before a trailing "$" and
\* whether the "$" is there.
DtypeLine ==
    [shape |-> "entry", name |-> "polars.Series.dtype", domain_role |-> "py:attribute",
     location |-> "reference/series/api/polars.Series.dtype.html#", dollar |-> TRUE]
FlagsLine ==
    [shape |-> "entry", name |-> "polars.Series.flags", domain_role |-> "py:attribute",
     location |-> "reference/series/api/polars.Series.flags.html#", dollar |-> TRUE]
BazLine ==
    [shape |-> "entry", name |-> "examplepkg.Baz", domain_role |-> "py:class",
     location |-> "api/baz.html", dollar |-> FALSE]
BlankLine ==
    [shape |-> "blank", name |-> "", domain_role |-> "", location |-> "", dollar |-> FALSE]
BadLine ==
    [shape |-> "malformed", name |-> "", domain_role |-> "", location |-> "", dollar |-> FALSE]

Lines == {DtypeLine, FlagsLine, BazLine, BlankLine, BadLine}

\* the bodies the documentation host may send
Payloads == SeqsUpTo(Lines, MaxLines)

\* what requests.get(url, timeout=10) can come back with
DownloadResponses ==
    {[net |-> n, status_code |-> 0, content |-> <<>>] : n \in {"refused", "slow"}}
    \cup {[net |-> "answered", status_code |-> s, content |-> b] :
            s \in {200, 204, 404}, b \in Payloads}

\* ------------------------------------------------------------ state
VARIABLES
    pc,              \* position inside fetch_inventory, "idle" between calls
    lazy,            \* self.lazy
    inventory_df,    \* self._inventory_df
    objects_inv_url, \* local of fetch_inventory
    raw_inv,         \* local of fetch_inventory
    parsed,          \* value of self._parse_inventory(raw_inv) before it is assigned
    ret,             \* what the last finished call returned
    err,             \* class of the exception the last finished call raised
    site,            \* the raise site of that exception
    calls,           \* calls of fetch_inventory begun
    stages,          \* stages entered by the current (or last) call, in order
    nDiscover,       \* runs of pypi-docs-url in the current call
    nRegistry,       \* registry requests in the current call
    nDownload,       \* inventory requests in the current call
    primary,         \* how the pypi-docs-url run of the current call ended
    registry,        \* the registry's response in the current call
    response,        \* the documentation host's response in the current call
    earlier          \* the (site, class) of the last failure of an earlier call

vars == <<pc, lazy, inventory_df, objects_inv_url, raw_inv, parsed, ret, err, site,
          calls, stages, nDiscover, nRegistry, nDownload, primary, registry,
          response, earlier>>

\* ------------------------------------------------------------ pure parts

\* requests.Response.ok: no 4xx or 5xx status
Ok(status) == ~(400 <= status /\ status < 600)

EndsWithSlash(s) == Len(s) > 0 /\ s[Len(s)] = "/"

ObjectsInvSuffix == <<"/", "o", "b", "j", "e", "c", "t", "s", ".", "i", "n", "v">>

\* doc_url.rstrip("/") in place of the one-character strip
RECURSIVE RStripSlashes(_)
RStripSlashes(s) ==
    IF EndsWithSlash(s) THEN RStripSlashes(SubSeq(s, 1, Len(s) - 1)) ELSE s

ObjectsInvUrlRstrip(doc_url) == RStripSlashes(doc_url) \o ObjectsInvSuffix

\* lines 101-103: strip one trailing "/" and append "/objects.inv"
ObjectsInvUrl(doc_url) ==
    LET stripped == IF EndsWithSlash(doc_url)
                    THEN SubSeq(doc_url, 1, Len(doc_url) - 1)
                    ELSE doc_url
    IN stripped \o ObjectsInvSuffix

\* line 78: the URL returned when pypi-docs-url ran
PlaceholderUrl ==
    <<"h", "t", "t", "p", "s", ":", "/", "/", "d", "o", "c", "s", ".", "p", "o", "l",
      "a", ".", "r", "s", "/", "a", "p", "i", "/", "p", "y", "t", "h", "o", "n", "/",
      "s", "t", "a", "b", "l", "e", "/", "o", "b", "j", "e", "c", "t", "s", ".", "i",
      "n", "v">>

\* lines 94-95: data["info"].get("project_urls", {}).get("Documentation");
\* a null project_urls has no .get
DocUrlLookup(data) ==
    IF data.project_urls = "null" THEN [raises |-> TRUE, doc_url |-> None]
    ELSE IF data.project_urls = "mapping" /\ data.documentation = "str"
         THEN [raises |-> FALSE, doc_url |-> Some(data.value)]
         ELSE [raises |-> FALSE, doc_url |-> None]

\* line 96: `not doc_url` is true of None and of the empty string
Falsy(doc_url) == IF doc_url.bound THEN Len(doc_url.val) = 0 ELSE TRUE

\* lines 123-130: the frame _parse_inventory builds, whatever raw_inv is
InventoryRows ==
    << [symbol_name |-> "polars.Series.dtype", symbol_type |-> "py:attribute",
        reference_url |-> [stem |-> "reference/series/api/polars.Series.dtype.html#",
                           tail |-> "polars.Series.dtype"]],
       [symbol_name |-> "polars.Series.flags", symbol_type |-> "py:attribute",
        reference_url |-> [stem |-> "reference/series/api/polars.Series.flags.html#",
                           tail |-> "polars.Series.flags"]] >>

\* line 135: df.lazy().collect() materialises the rows of df
LazyCollect(rows) == [i \in 1..Len(rows) |-> rows[i]]

\* lines 115-136
ParseInventory(raw, isLazy) ==
    LET rows == InventoryRows
    IN IF isLazy THEN LazyCollect(rows) ELSE rows

\* ------------------------------------------------------------ actions

Init ==
    /\ pc = "idle"
    /\ lazy \in BOOLEAN
    /\ inventory_df = None
    /\ objects_inv_url = None
    /\ raw_inv = None
    /\ parsed = None
    /\ ret = None
    /\ err = "none"
    /\ site = "none"
    /\ calls = 0
    /\ stages = <<>>
    /\ nDiscover = 0
    /\ nRegistry = 0
    /\ nDownload = 0
    /\ primary = "none"
    /\ registry = None
    /\ response = None
    /\ earlier = None

\* an exception of class `kind` raised at `where` leaves fetch_inventory
Raise(kind, where) ==
    /\ pc' = "idle"
    /\ err' = kind
    /\ site' = where

NoRaise == UNCHANGED <<err, site>>

\* fetch_inventory with a cache: a populated self._inventory_df is returned
\* without resolving or downloading again
CallCached ==
    /\ pc = "idle"
    /\ calls < MaxCalls
    /\ calls' = calls + 1
    /\ pc' = IF inventory_df.bound THEN "idle" ELSE "discover"
    /\ ret' = IF inventory_df.bound THEN inventory_df ELSE None
    /\ objects_inv_url' = None
    /\ raw_inv' = None
    /\ parsed' = None
    /\ err' = "none"
    /\ site' = "none"
    /\ stages' = <<>>
    /\ nDiscover' = 0
    /\ nRegistry' = 0
    /\ nDownload' = 0
    /\ primary' = "none"
    /\ registry' = None
    /\ response' = None
    /\ earlier' = IF err = "none" THEN earlier ELSE Some([site |-> site, kind |-> err])
    /\ UNCHANGED <<lazy, inventory_df>>

\* line 30: a caller enters fetch_inventory
Call ==
    /\ pc = "idle"
    /\ calls < MaxCalls
    /\ calls' = calls + 1
    /\ pc' = "discover"
    /\ objects_inv_url' = None
    /\ raw_inv' = None
    /\ parsed' = None
    /\ ret' = None
    /\ err' = "none"
    /\ site' = "none"
    /\ stages' = <<>>
    /\ nDiscover' = 0
    /\ nRegistry' = 0
    /\ nDownload' = 0
    /\ primary' = "none"
    /\ registry' = None
    /\ response' = None
    /\ earlier' = IF err = "none" THEN earlier ELSE Some([site |-> site, kind |-> err])
    /\ UNCHANGED <<lazy, inventory_df>>

\* _discover_objects_inv with `except Exception` in place of
\* `except FileNotFoundError`: a failing pypi-docs-url run falls back too
DiscoverCatchAll ==
    /\ pc = "discover"
    /\ stages' = Append(stages, "resolve")
    /\ nDiscover' = nDiscover + 1
    /\ \E outcome \in {"completed", "FileNotFoundError", "CalledProcessError"} :
        /\ primary' = outcome
        /\ \/ /\ outcome = "completed"
              /\ objects_inv_url' = Some(PlaceholderUrl)
              /\ pc' = "download"
           \/ /\ outcome # "completed"
              /\ pc' = "fallback"
              /\ UNCHANGED objects_inv_url
    /\ NoRaise
    /\ UNCHANGED <<lazy, inventory_df, raw_inv, parsed, ret, calls, nRegistry,
                   nDownload, registry, response, earlier>>

\* _discover_objects_inv swallowing a failed pypi-docs-url run: the call goes
\* on to the download with no URL
DiscoverSwallow ==
    /\ pc = "discover"
    /\ stages' = Append(stages, "resolve")
    /\ nDiscover' = nDiscover + 1
    /\ \E outcome \in {"completed", "FileNotFoundError", "CalledProcessError"} :
        /\ primary' = outcome
        /\ \/ /\ outcome = "completed"
              /\ objects_inv_url' = Some(PlaceholderUrl)
              /\ pc' = "download"
           \/ /\ outcome = "FileNotFoundError"
              /\ pc' = "fallback"
              /\ UNCHANGED objects_inv_url
           \/ /\ outcome = "CalledProcessError"
              /\ pc' = "download"
              /\ UNCHANGED objects_inv_url
    /\ NoRaise
    /\ UNCHANGED <<lazy, inventory_df, raw_inv, parsed, ret, calls, nRegistry,
                   nDownload, registry, response, earlier>>

\* lines 37, 63-81: subprocess.run(["pypi-docs-url", ...], check=True)
Discover ==
    /\ pc = "discover"
    /\ stages' = Append(stages, "resolve")
    /\ nDiscover' = nDiscover + 1
    /\ \E outcome \in {"completed", "FileNotFoundError", "CalledProcessError"} :
        /\ primary' = outcome
        /\ \/ /\ outcome = "completed"
              /\ objects_inv_url' = Some(PlaceholderUrl)
              /\ pc' = "download"
              /\ NoRaise
           \/ /\ outcome = "FileNotFoundError"
              /\ pc' = "fallback"
              /\ UNCHANGED objects_inv_url
              /\ NoRaise
           \/ /\ outcome = "CalledProcessError"
              /\ Raise("CalledProcessError", "subprocess.run")
              /\ UNCHANGED objects_inv_url
    /\ UNCHANGED <<lazy, inventory_df, raw_inv, parsed, ret, calls, nRegistry,
                   nDownload, registry, response, earlier>>

\* lines 83-104
Fallback ==
    /\ pc = "fallback"
    /\ nRegistry' = nRegistry + 1
    /\ \E r \in RegistryResponses :
        /\ registry' = Some(r)
        /\ \/ /\ r.net = "refused"
              /\ Raise("ConnectionError", "registry request")
              /\ UNCHANGED objects_inv_url
           \/ /\ r.net = "slow"
              /\ Raise("Timeout", "registry request")
              /\ UNCHANGED objects_inv_url
           \/ /\ r.net = "answered"
              /\ ~Ok(r.status)
              /\ Raise("ValueError", "registry status")
              /\ UNCHANGED objects_inv_url
           \/ /\ r.net = "answered"
              /\ Ok(r.status)
              /\ DocUrlLookup(r.data).raises
              /\ Raise("AttributeError", "project_urls lookup")
              /\ UNCHANGED objects_inv_url
           \/ /\ r.net = "answered"
              /\ Ok(r.status)
              /\ ~DocUrlLookup(r.data).raises
              /\ Falsy(DocUrlLookup(r.data).doc_url)
              /\ Raise("ValueError", "no documentation url")
              /\ UNCHANGED objects_inv_url
           \/ /\ r.net = "answered"
              /\ Ok(r.status)
              /\ ~DocUrlLookup(r.data).raises
              /\ ~Falsy(DocUrlLookup(r.data).doc_url)
              /\ objects_inv_url' = Some(ObjectsInvUrl(DocUrlLookup(r.data).doc_url.val))
              /\ pc' = "download"
              /\ NoRaise
    /\ UNCHANGED <<lazy, inventory_df, raw_inv, parsed, ret, calls, stages, nDiscover,
                   nDownload, primary, response, earlier>>

\* _download_inventory testing `not resp.ok` in place of
\* `resp.status_code != 200`
DownloadOkTest ==
    /\ pc = "download"
    /\ stages' = Append(stages, "fetch")
    /\ nDownload' = nDownload + 1
    /\ \E resp \in DownloadResponses :
        /\ response' = Some(resp)
        /\ \/ /\ resp.net = "refused"
              /\ Raise("ConnectionError", "inventory request")
              /\ UNCHANGED raw_inv
           \/ /\ resp.net = "slow"
              /\ Raise("Timeout", "inventory request")
              /\ UNCHANGED raw_inv
           \/ /\ resp.net = "answered"
              /\ ~Ok(resp.status_code)
              /\ Raise("ValueError", "inventory status")
              /\ UNCHANGED raw_inv
           \/ /\ resp.net = "answered"
              /\ Ok(resp.status_code)
              /\ raw_inv' = Some(resp.content)
              /\ pc' = "parse"
              /\ NoRaise
    /\ UNCHANGED <<lazy, inventory_df, objects_inv_url, parsed, ret, calls, nDiscover,
                   nRegistry, primary, registry, earlier>>

\* lines 40, 106-113
Download ==
    /\ pc = "download"
    /\ stages' = Append(stages, "fetch")
    /\ nDownload' = nDownload + 1
    /\ \E resp \in DownloadResponses :
        /\ response' = Some(resp)
        /\ \/ /\ resp.net = "refused"
              /\ Raise("ConnectionError", "inventory request")
              /\ UNCHANGED raw_inv
           \/ /\ resp.net = "slow"
              /\ Raise("Timeout", "inventory request")
              /\ UNCHANGED raw_inv
           \/ /\ resp.net = "answered"
              /\ resp.status_code # 200
              /\ Raise("ValueError", "inventory status")
              /\ UNCHANGED raw_inv
           \/ /\ resp.net = "answered"
              /\ resp.status_code = 200
              /\ raw_inv' = Some(resp.content)
              /\ pc' = "parse"
              /\ NoRaise
    /\ UNCHANGED <<lazy, inventory_df, objects_inv_url, parsed, ret, calls, nDiscover,
                   nRegistry, primary, registry, earlier>>

\* line 43, right-hand side: self._parse_inventory(raw_inv)
Parse ==
    /\ pc = "parse"
    /\ stages' = Append(stages, "decode")
    /\ parsed' = Some([id |-> calls, rows |-> ParseInventory(raw_inv.val, lazy)])
    /\ pc' = "store"
    /\ UNCHANGED <<lazy, inventory_df, objects_inv_url, raw_inv, ret, err, site, calls,
                   nDiscover, nRegistry, nDownload, primary, registry, response,
                   earlier>>

\* lines 43 and 45: the assignment to self._inventory_df and the return
Store ==
    /\ pc = "store"
    /\ stages' = Append(stages, "store")
    /\ inventory_df' = parsed
    /\ ret' = parsed
    /\ pc' = "idle"
    /\ UNCHANGED <<lazy, objects_inv_url, raw_inv, parsed, err, site, calls, nDiscover,
                   nRegistry, nDownload, primary, registry, response, earlier>>

\* review_version_changes keeping the frame it builds in self._inventory_df
ReviewVersionChangesStores ==
    /\ pc = "idle"
    /\ \E from_v \in {"first", "1.0"}, to_v \in {"latest"} :
        /\ ret' = Some([id |-> 0, rows |-> <<[from_v |-> from_v, to_v |-> to_v]>>])
        /\ inventory_df' = ret'
    /\ UNCHANGED <<pc, lazy, objects_inv_url, raw_inv, parsed, err, site,
                   calls, stages, nDiscover, nRegistry, nDownload, primary, registry,
                   response, earlier>>

\* lines 47-54: builds a frame of its two arguments and touches nothing else
ReviewVersionChanges ==
    /\ pc = "idle"
    /\ \E from_v \in {"first", "1.0"}, to_v \in {"latest"} :
        ret' = Some([id |-> 0, rows |-> <<[from_v |-> from_v, to_v |-> to_v]>>])
    /\ UNCHANGED <<pc, lazy, inventory_df, objects_inv_url, raw_inv, parsed, err, site,
                   calls, stages, nDiscover, nRegistry, nDownload, primary, registry,
                   response, earlier>>

Next ==
    \/ Call
    \/ Discover
    \/ Fallback
    \/ Download
    \/ Parse
    \/ Store
    \/ ReviewVersionChanges

Spec == Init /\ [][Next]_vars

\* ------------------------------------------------------------ properties

\* the stages of fetch_inventory, in the order of lines 37, 40, 43
Pipeline == <<"resolve", "fetch", "decode", "store">>

\* the stage a raise site belongs to
StageOf(where) ==
    IF where \in {"inventory request", "inventory status"} THEN "fetch" ELSE "resolve"

StagesUpTo(stage) ==
    IF stage = "resolve" THEN <<"resolve">> ELSE <<"resolve", "fetch">>

Finished == pc = "idle" /\ calls > 0

\* C1: within one call the stages are entered in the order resolve, fetch,
\* decode, store; the download is started only with a resolved URL, the
\* decode only with downloaded bytes; after a failure the stages entered are
\* exactly those up to the failing one.
C1_StagesInOrder ==
    /\ Len(stages) <= Len(Pipeline)
    /\ stages = SubSeq(Pipeline, 1, Len(stages))
    /\ pc = "download" => objects_inv_url.bound
    /\ Len(stages) >= 2 => objects_inv_url.bound
    /\ pc = "parse" => raw_inv.bound
    /\ Len(stages) >= 3 => raw_inv.bound
    /\ err # "none" => pc = "idle" /\ stages = StagesUpTo(StageOf(site))

\* a call whose download failed: resolve and fetch were entered, nothing later
C1_Witness ==
    /\ Finished
    /\ err = "ValueError"
    /\ site = "inventory status"
    /\ stages = <<"resolve", "fetch">>
    /\ objects_inv_url.bound
    /\ ~raw_inv.bound

\* C2: every call runs the resolution exactly once and, when the resolution
\* gave a URL, sends exactly one inventory request (none otherwise), whether
\* or not an earlier call filled the table and whether or not a request
\* failed.
C2_OneCyclePerCall ==
    /\ nDiscover <= 1
    /\ nRegistry <= 1
    /\ nDownload <= 1
    /\ (calls > 0 /\ pc # "discover") => nDiscover = 1
    /\ pc \in {"parse", "store"} => nDownload = 1
    /\ Finished => nDownload = (IF objects_inv_url.bound THEN 1 ELSE 0)

\* a second call, made with the table of the first call in place, whose one
\* inventory request failed
C2_Witness ==
    /\ Finished
    /\ calls = 2
    /\ inventory_df.bound
    /\ inventory_df.val.id = 1
    /\ nDiscover = 1
    /\ nDownload = 1
    /\ err = "Timeout"

\* the kind of failure a raise site stands for: no documentation URL could be
\* determined, or a network step failed
Cause(where) ==
    IF where \in {"registry request", "inventory request", "inventory status"}
    THEN "network"
    ELSE "resolution"

\* C3: the class of the exception a failed call raises tells a resolution
\* failure from a network failure: two failed calls of different cause never
\* raise the same class.
C3_KindTellsStage ==
    (err # "none" /\ earlier.bound /\ Cause(site) # Cause(earlier.val.site))
        => err # earlier.val.kind

\* the registry's document has no usable Documentation entry
NoDocumentation(data) ==
    data.project_urls # "mapping" \/ data.documentation # "str" \/ data.value = <<>>

\* C4: in the fallback, a registry answer with a non-success status or
\* without a (non-empty) Documentation entry ends the call with the
\* resolver's error (ValueError), no URL and no inventory request.
C4_FallbackFails ==
    (registry.bound /\ registry.val.net = "answered"
        /\ (~Ok(registry.val.status) \/ NoDocumentation(registry.val.data)))
        => /\ pc = "idle"
           /\ err = "ValueError"
           /\ ~objects_inv_url.bound
           /\ nDownload = 0

\* C5: the URL the fallback produces from the registry's Documentation URL d
\* is d without one trailing "/" (if it has one), followed by "/objects.inv";
\* d with a slash appended gives the same URL.
C5_InventoryUrlForm ==
    (registry.bound /\ objects_inv_url.bound) =>
        LET d == registry.val.data.value
            u == objects_inv_url.val
            n == Len(ObjectsInvSuffix)
            kept == IF EndsWithSlash(d) THEN Len(d) - 1 ELSE Len(d)
        IN /\ Len(u) = kept + n
           /\ \A i \in 1..kept : u[i] = d[i]
           /\ \A i \in 1..n : u[kept + i] = ObjectsInvSuffix[i]
           /\ ~EndsWithSlash(d) => ObjectsInvUrl(Append(d, "/")) = u

\* the Documentation URL "//" gave "/" followed by "/objects.inv"
C5_Witness ==
    /\ registry.bound
    /\ objects_inv_url.bound
    /\ registry.val.data.value = <<"/", "/">>
    /\ objects_inv_url.val = <<"/">> \o ObjectsInvSuffix

\* C6: the download gives its body to the call only for status 200; any other
\* status raises ValueError; a refused or timed-out request raises a requests
\* exception, which is not ValueError.
C6_FetcherOutcome ==
    response.bound =>
        LET r == response.val
        IN /\ raw_inv.bound =>
                r.net = "answered" /\ r.status_code = 200 /\ raw_inv.val = r.content
           /\ (r.net = "answered" /\ r.status_code = 200) => raw_inv.bound /\ err = "none"
           /\ (r.net = "answered" /\ r.status_code # 200) =>
                err = "ValueError" /\ site = "inventory status" /\ ~raw_inv.bound
           /\ r.net # "answered" =>
                /\ err \in {"Timeout", "ConnectionError"}
                /\ site = "inventory request"
                /\ ~raw_inv.bound

\* a 204 answer with a body: ValueError, the body is not handed on
C6_Witness ==
    /\ response.bound
    /\ response.val.net = "answered"
    /\ response.val.status_code = 204
    /\ response.val.content = <<BazLine>>
    /\ err = "ValueError"
    /\ ~raw_inv.bound

\* the records the line grammar gives for a payload: one per well-formed line,
\* in order, a trailing "$" of the location replaced by the name
RECURSIVE DecodedRows(_)
DecodedRows(payload) ==
    IF payload = <<>> THEN <<>>
    ELSE LET l == Head(payload)
             rest == DecodedRows(Tail(payload))
         IN IF l.shape = "entry"
            THEN <<[symbol_name |-> l.name, symbol_type |-> l.domain_role,
                    reference_url |-> [stem |-> l.location,
                                       tail |-> IF l.dollar THEN l.name ELSE ""]]>>
                 \o rest
            ELSE rest

HasMalformed(payload) == \E i \in 1..Len(payload) : payload[i].shape = "malformed"

RECURSIVE NonBlank(_)
NonBlank(payload) ==
    IF payload = <<>> THEN 0
    ELSE (IF Head(payload).shape = "blank" THEN 0 ELSE 1) + NonBlank(Tail(payload))

\* C7: the table a call stores and returns holds, for the bytes it
\* downloaded, one record per line with the location's trailing "$" replaced
\* by the name and any other location unchanged.
C7_DollarExpansion ==
    (stages = Pipeline /\ ~HasMalformed(raw_inv.val))
        => inventory_df.val.rows = DecodedRows(raw_inv.val)

\* C8: decoding a payload with a malformed non-blank line fails and gives no
\* table; a decode that succeeds has as many records as the payload has
\* non-blank lines.
C8_StrictDecode ==
    (Len(stages) >= 3 /\ pc # "parse") =>
        IF HasMalformed(raw_inv.val)
        THEN ~parsed.bound /\ err # "none"
        ELSE parsed.bound /\ Len(parsed.val.rows) = NonBlank(raw_inv.val)

\* C9: the registry is queried exactly when pypi-docs-url is not installed:
\* never when it ran, whether it succeeded or failed; a missing pypi-docs-url
\* does not fail the call but takes it to the registry query.
C9_FallbackIffUnavailable ==
    /\ nRegistry > 0 => primary = "FileNotFoundError"
    /\ registry.bound => primary = "FileNotFoundError"
    /\ primary = "FileNotFoundError" =>
        \/ pc = "fallback" /\ err = "none" /\ nRegistry = 0
        \/ nRegistry = 1 /\ registry.bound
    /\ primary = "CalledProcessError" =>
        pc = "idle" /\ err = "CalledProcessError" /\ nRegistry = 0
    /\ primary = "completed" => err # "CalledProcessError" /\ nRegistry = 0

\* pypi-docs-url was missing and the registry query resolved the URL
C9_Witness ==
    /\ primary = "FileNotFoundError"
    /\ nRegistry = 1
    /\ registry.bound
    /\ objects_inv_url.bound
    /\ pc = "download"

\* C10: the table is empty at construction; it changes only in the last step
\* of a call whose resolution, download and decode succeeded, and then to the
\* newly decoded table; a step that fails a call, and
\* review_version_changes, leave it as it was.
C10_TableFrame ==
    /\ inventory_df = None
    /\ [][ /\ inventory_df' # inventory_df =>
                /\ pc = "store"
                /\ pc' = "idle"
                /\ err' = "none"
                /\ stages' = Pipeline
                /\ parsed.bound
                /\ parsed.val.id = calls
                /\ inventory_df' = parsed
           /\ pc = "store" => inventory_df' = parsed /\ inventory_df' # inventory_df
           /\ err' # "none" => inventory_df' = inventory_df
           /\ (pc = "idle" /\ pc' = "idle") => inventory_df' = inventory_df
         ]_vars

\* a failed second call and a review_version_changes after it, with the table
\* of the first call still in place
C10_Witness ==
    /\ Finished
    /\ calls = 2
    /\ err = "CalledProcessError"
    /\ ret.bound
    /\ ret.val.id = 0
    /\ inventory_df.bound
    /\ inventory_df.val.id = 1
    /\ inventory_df.val.rows = InventoryRows
====
